---- MODULE Spec2Model ----
(***************************************************************************)
(* Model of src/src/pages/Home.tsx: the Home component's task store (React *)
(* state `tasks`, the load and save effects on localStorage), the chat     *)
(* session of the AIChat component, and the view/filter state.             *)
(*                                                                         *)
(* Conventions.                                                            *)
(*  - A text (string) is a sequence of symbols; the symbol " " is          *)
(*    whitespace, every other symbol is a run of non-whitespace text.      *)
(*  - An optional value (undefined / null in the source) is a sequence of  *)
(*    length at most one: <<>> is "absent", <<v>> is "present with v".     *)
(*  - A Date is its time value in milliseconds; Date.now().toString() is   *)
(*    the decimal numeral of an integer, which is injective, so an id is   *)
(*    modelled by the integer it spells.                                   *)
(*  - One action is one event handler together with the render and the     *)
(*    effects React runs before the next event is dispatched.              *)
(*  - A control fires only while it is rendered (a dialog that is open, a  *)
(*    branch of a conditional render).  The `disabled` props handed to the *)
(*    UI kit are not relied on: a handler is guarded by its own code only. *)
(***************************************************************************)
EXTENDS Integers, Sequences, FiniteSets, TLC

VARIABLES
    phase,          \* "mounting": state after useState initialisers, effects not yet run; "ready"
    now,            \* the reading of Date.now() / new Date()
    tasks,          \* Home: useState<Task[]>
    storage,        \* localStorage value under 'taskflow_tasks' (optional)
    showAddModal,   \* Home: useState(false)
    showAIChat,     \* Home: useState(false)
    activeView,     \* Home: useState('today')
    categoryFilter, \* Home: useState<string | null>(null) (optional)
    activeCategory, \* ListsView: useState<string | null>(null) (optional; absent while unmounted)
    messages,       \* AIChat: useState<ChatMessage[]>([])
    input,          \* AIChat: useState('')
    loading,        \* AIChat: useState(false)
    inflight,       \* the callAIAgent calls awaiting their result, oldest first
    lastEvent,      \* history: the handler that ran last
    lastId,         \* history: the id the last toggle / delete was called with (0: none)
    removed,        \* history: ids of tasks deleted and not created again since
    lastRaised,     \* history: the error the last handler reported to its caller (optional)
    lastSetItem,    \* history: did the last step call localStorage.setItem
    lastOutcome     \* history: how the call the last step resolved had ended

storeVars == <<tasks, storage, showAddModal>>
viewVars == <<activeView, categoryFilter, activeCategory>>
chatVars == <<messages, input, loading, inflight>>
histVars == <<lastEvent, lastId, removed, lastRaised, lastSetItem, lastOutcome>>
vars == <<phase, now, storeVars, showAIChat, viewVars, chatVars, histVars>>

----------------------------------------------------------------------------
(* Bounds *)

MaxClock == 5       \* last clock reading of a run
MaxTasks == 3       \* longest task collection a run builds
MaxTurns == 4       \* longest chat log a run builds

----------------------------------------------------------------------------
(* Texts and optional values *)

None == <<>>
Some(v) == <<v>>

\* the texts a run types into a field: empty, blank, and with content
TypedTexts == {<<>>, <<" ">>, <<" ", " ">>, <<"a">>, <<" ", "a", " ">>}

\* Variant: no trimming
TrimOmitted(t) == t

\* String.prototype.trim: drop leading and trailing whitespace
RECURSIVE TrimStart(_)
TrimStart(t) ==
    IF t # <<>> /\ Head(t) = " " THEN TrimStart(Tail(t)) ELSE t

RECURSIVE TrimEnd(_)
TrimEnd(t) ==
    IF t # <<>> /\ t[Len(t)] = " " THEN TrimEnd(SubSeq(t, 1, Len(t) - 1)) ELSE t

Trim(t) == TrimEnd(TrimStart(t))

\* JavaScript truthiness of a string: non-empty
Truthy(t) == t # <<>>

----------------------------------------------------------------------------
(* Tasks *)

Categories == {"Work", "Personal", "Shopping"}
Priorities == {"low", "medium", "high"}

\* the choices a run makes in the add dialog (its initial priority is
\* 'medium' and its initial due date is new Date())
AddPriorities == {"medium"}
AddCategories == {"Personal", "Work"}

sampleTasks(t) == <<
    [id |-> 1, title |-> <<"Review Q1 project proposals">>, completed |-> FALSE,
     priority |-> "high", category |-> "Work", dueDate |-> t, createdAt |-> t],
    [id |-> 2, title |-> <<"Buy groceries for the week">>, completed |-> FALSE,
     priority |-> "medium", category |-> "Shopping", dueDate |-> t, createdAt |-> t],
    [id |-> 3, title |-> <<"Call mom to check in">>, completed |-> TRUE,
     priority |-> "low", category |-> "Personal", dueDate |-> t, createdAt |-> t] >>

TaskIds(ts) == {ts[i].id : i \in 1..Len(ts)}

\* first clock reading of a run: later than the numerals the seeded ids spell
T0 == Len(sampleTasks(0)) + 1

(* Date <-> JSON.  Date.prototype.toJSON gives the ISO text of a valid date *)
(* and null for an invalid one; new Date(text) parses the ISO text back,    *)
(* new Date(null) is the epoch.                                             *)
InvalidDate == -1
\* Variant: every date is written as null
DateWrittenAsNull(d) == None

DateToJSON(d) == IF d = InvalidDate THEN None ELSE Some(d)
DateFromJSON(j) == IF j = None THEN 0 ELSE j[1]

\* JSON.stringify(tasks)
Stringify(ts) ==
    [i \in 1..Len(ts) |->
        [ts[i] EXCEPT !.dueDate = DateToJSON(@), !.createdAt = DateToJSON(@)]]

\* JSON.parse(savedTasks).map(t => ({...t, dueDate: new Date(..), createdAt: new Date(..)}))
Parse(js) ==
    [i \in 1..Len(js) |->
        [js[i] EXCEPT !.dueDate = DateFromJSON(@), !.createdAt = DateFromJSON(@)]]

\* Save effect: runs after a render in which `tasks` is a new array
SaveEffect(ts, st) == IF Len(ts) > 0 THEN Some(Stringify(ts)) ELSE st
SaveCalls(ts) == Len(ts) > 0

\* Load effect: the collection setTasks receives
LoadEffect(st, t) == IF st # None THEN Parse(st[1]) ELSE sampleTasks(t)

----------------------------------------------------------------------------
(* Chat *)

AGENT_ID == "697176e5d6d0dcaec1119067"

suggestions == <<
    <<"Prioritize my tasks">>,
    <<"What should I focus on?">>,
    <<"Help me manage my time">>,
    <<"Tips for productivity">> >>

SoftFallback == <<"Sorry, I encountered an error. Please try again.">>
NetworkFallback == <<"Network error. Please check your connection and try again.">>

\* the result payloads the collaborator answers with in a run
Payloads == {
    [answer |-> <<"Focus on high priority">>, tips |-> <<"Do urgent first", "Batch small tasks">>,
     priority_suggestions |-> <<"Review Q1">>, related_topics |-> <<"time-management">>] }

\* The ways a callAIAgent call ends: it throws, or it returns an envelope
\* { success, response?: { status, result?, message? } }
Outcomes ==
    {[throws |-> TRUE, success |-> FALSE, response |-> None]}
    \cup {[throws |-> FALSE, success |-> ok, response |-> None] : ok \in BOOLEAN}
    \cup {[throws |-> FALSE, success |-> TRUE,
           response |-> Some([status |-> "success", result |-> r, message |-> None])] :
            r \in {None} \cup {Some(p) : p \in Payloads}}
    \cup {[throws |-> FALSE, success |-> FALSE,
           response |-> Some([status |-> "success", result |-> Some(p), message |-> None])] :
            p \in Payloads}
    \cup {[throws |-> FALSE, success |-> ok,
           response |-> Some([status |-> "error", result |-> None, message |-> m])] :
            ok \in BOOLEAN, m \in {None, Some(<<>>), Some(<<"Rate limited">>)}}

\* Variant: the catch block answers with the soft fallback
CaughtMessageSoft(t) ==
    [id |-> t + 1, type |-> "assistant", content |-> SoftFallback,
     tips |-> None, prioritySuggestions |-> None, relatedTopics |-> None, timestamp |-> t]

\* The message built in the catch block
CaughtMessage(t) ==
    [id |-> t + 1, type |-> "assistant", content |-> NetworkFallback,
     tips |-> None, prioritySuggestions |-> None, relatedTopics |-> None, timestamp |-> t]

\* Variant: the tips of a success payload are taken last first
AssistantMessageTipsReversed(o, t) ==
    IF ~o.throws /\ o.success /\ o.response # None /\ o.response[1].result # None
    THEN LET data == o.response[1].result[1] IN
         [id |-> t + 1, type |-> "assistant", content |-> data.answer,
          tips |-> Some([i \in 1..Len(data.tips) |-> data.tips[Len(data.tips) + 1 - i]]),
          prioritySuggestions |-> Some(data.priority_suggestions),
          relatedTopics |-> Some(data.related_topics), timestamp |-> t]
    ELSE CaughtMessage(t)

\* The assistant message handleSendMessage appends for an outcome, read at
\* clock t.  Reading a property of an absent (undefined) value throws a
\* TypeError inside the try block, which the catch block handles.
AssistantMessage(o, t) ==
    IF o.throws THEN CaughtMessage(t)
    ELSE IF o.success /\ o.response = None THEN CaughtMessage(t)
    ELSE IF o.success /\ o.response[1].status = "success"
    THEN IF o.response[1].result = None THEN CaughtMessage(t)
         ELSE LET data == o.response[1].result[1] IN
              [id |-> t + 1, type |-> "assistant", content |-> data.answer,
               tips |-> Some(data.tips),
               prioritySuggestions |-> Some(data.priority_suggestions),
               relatedTopics |-> Some(data.related_topics), timestamp |-> t]
    ELSE IF o.response = None THEN CaughtMessage(t)
    ELSE LET m == o.response[1].message IN
         [id |-> t + 1, type |-> "assistant",
          content |-> IF m # None /\ Truthy(m[1]) THEN m[1] ELSE SoftFallback,
          tips |-> None, prioritySuggestions |-> None, relatedTopics |-> None,
          timestamp |-> t]

UserMessage(text, t) ==
    [id |-> t, type |-> "user", content |-> text,
     tips |-> None, prioritySuggestions |-> None, relatedTopics |-> None, timestamp |-> t]

\* Variant: the suggestion buttons are rendered whatever the log holds
SuggestionsAlwaysShown == TRUE

\* The suggestion buttons are rendered in the empty-log branch only
SuggestionsShown == Len(messages) = 0

\* Variant: handleSubmit does not look at `loading`
SubmitIgnoredBlankOnly == ~Truthy(Trim(input))

\* handleSubmit's early return
SubmitIgnored == ~Truthy(Trim(input)) \/ loading

\* Remove the i-th element of a sequence
RemoveAt(s, i) == SubSeq(s, 1, i - 1) \o SubSeq(s, i + 1, Len(s))

----------------------------------------------------------------------------
Init ==
    /\ phase = "mounting"
    /\ now = T0
    /\ tasks = <<>>
    /\ storage = None
    /\ showAddModal = FALSE
    /\ showAIChat = FALSE
    /\ activeView = "today"
    /\ categoryFilter = None
    /\ activeCategory = None
    /\ messages = <<>>
    /\ input = <<>>
    /\ loading = FALSE
    /\ inflight = <<>>
    /\ lastEvent = "construct"
    /\ lastId = 0
    /\ removed = {}
    /\ lastRaised = None
    /\ lastSetItem = FALSE
    /\ lastOutcome = None

\* What a handler that takes no id, reports nothing and writes nothing records
Note(ev) ==
    /\ lastEvent' = ev
    /\ lastId' = 0
    /\ lastRaised' = None
    /\ lastSetItem' = FALSE
    /\ lastOutcome' = None

\* The clock advances
Tick ==
    /\ now < MaxClock
    /\ now' = now + 1
    /\ UNCHANGED <<phase, storeVars, showAIChat, viewVars, chatVars, histVars>>

\* First commit: the load effect and the save effect run on the initial
\* render (tasks = []), then the render with the loaded tasks runs the save
\* effect again.
Mount ==
    /\ phase = "mounting"
    /\ phase' = "ready"
    /\ tasks' = LoadEffect(storage, now)
    /\ storage' = SaveEffect(tasks', SaveEffect(tasks, storage))
    /\ lastSetItem' = (SaveCalls(tasks) \/ SaveCalls(tasks'))
    /\ lastEvent' = IF storage # None THEN "load" ELSE "seed"
    /\ lastId' = 0
    /\ removed' = IF storage # None THEN removed ELSE removed \ TaskIds(tasks')
    /\ lastRaised' = None
    /\ lastOutcome' = None
    /\ UNCHANGED <<now, showAddModal, showAIChat, viewVars, chatVars>>

\* The page is closed and opened again: component state is rebuilt by the
\* useState initialisers, calls in flight die with the page, localStorage
\* is kept.
Reload ==
    /\ phase \in {"ready", "crashed"}
    /\ phase' = "mounting"
    /\ tasks' = <<>>
    /\ showAddModal' = FALSE
    /\ showAIChat' = FALSE
    /\ activeView' = "today"
    /\ categoryFilter' = None
    /\ activeCategory' = None
    /\ messages' = <<>>
    /\ input' = <<>>
    /\ loading' = FALSE
    /\ inflight' = <<>>
    /\ Note("construct")
    /\ UNCHANGED <<now, storage, removed>>

----------------------------------------------------------------------------
(* Task store handlers *)

\* The floating add button, rendered in the today and upcoming views:
\* setShowAddModal(true)
OpenAddModal ==
    /\ phase = "ready"
    /\ activeView \in {"today", "upcoming"}
    /\ ~showAddModal
    /\ showAddModal' = TRUE
    /\ Note("openAdd")
    /\ UNCHANGED <<phase, now, tasks, storage, showAIChat, viewVars, chatVars, removed>>

\* Cancel button / onOpenChange of the add dialog: setShowAddModal(false)
CloseAddModal ==
    /\ phase = "ready"
    /\ showAddModal
    /\ showAddModal' = FALSE
    /\ Note("closeAdd")
    /\ UNCHANGED <<phase, now, tasks, storage, showAIChat, viewVars, chatVars, removed>>

\* handleAddTask: the next value of `tasks`
AddTask(ts, newTask, t) ==
    Append(ts, [id |-> t, title |-> newTask.title, completed |-> FALSE,
                priority |-> newTask.priority, category |-> newTask.category,
                dueDate |-> newTask.dueDate, createdAt |-> t])

\* handleToggleTask: the next value of `tasks`
ToggleTask(ts, id) ==
    [i \in 1..Len(ts) |->
        IF ts[i].id = id THEN [ts[i] EXCEPT !.completed = ~@] ELSE ts[i]]

\* handleDeleteTask: the next value of `tasks`
DeleteTask(ts, id) == SelectSeq(ts, LAMBDA t : t.id # id)

\* QuickAddModal.handleSubmit, with Home.handleAddTask and the save effect
QuickAddSubmit(title, priority, category, dueDate) ==
    /\ phase = "ready"
    /\ showAddModal
    /\ Len(tasks) < MaxTasks
    /\ lastId' = 0
    /\ lastRaised' = None
    /\ lastOutcome' = None
    /\ IF ~Truthy(Trim(title))
       THEN /\ lastEvent' = "addIgnored"
            /\ lastSetItem' = FALSE
            /\ UNCHANGED <<tasks, storage, showAddModal, removed>>
       ELSE /\ tasks' = AddTask(tasks, [title |-> title, priority |-> priority,
                                        category |-> category, dueDate |-> dueDate], now)
            /\ storage' = SaveEffect(tasks', storage)
            /\ lastSetItem' = SaveCalls(tasks')
            /\ showAddModal' = FALSE
            /\ lastEvent' = "add"
            /\ removed' = removed \ {now}
    /\ UNCHANGED <<phase, now, showAIChat, viewVars, chatVars>>

\* handleToggleTask(id) and the save effect
HandleToggleTask(id) ==
    /\ phase = "ready"
    /\ tasks' = ToggleTask(tasks, id)
    /\ storage' = SaveEffect(tasks', storage)
    /\ lastSetItem' = SaveCalls(tasks')
    /\ lastEvent' = "toggle"
    /\ lastId' = id
    /\ lastRaised' = None
    /\ lastOutcome' = None
    /\ UNCHANGED <<phase, now, showAddModal, showAIChat, viewVars, chatVars, removed>>

\* handleDeleteTask(id) and the save effect
HandleDeleteTask(id) ==
    /\ phase = "ready"
    /\ tasks' = DeleteTask(tasks, id)
    /\ storage' = SaveEffect(tasks', storage)
    /\ lastSetItem' = SaveCalls(tasks')
    /\ lastEvent' = "delete"
    /\ lastId' = id
    /\ removed' = IF id \in TaskIds(tasks) THEN removed \cup {id} ELSE removed
    /\ lastRaised' = None
    /\ lastOutcome' = None
    /\ UNCHANGED <<phase, now, showAddModal, showAIChat, viewVars, chatVars>>

\* The save effect when localStorage.setItem throws (quota exhausted, storage
\* disabled): the effect has no try/catch, the exception leaves the effect
\* and React unmounts the tree the component is in. `ts` is the collection
\* the handler has just set.
SaveEffectThrows(ts) ==
    /\ SaveCalls(ts)
    /\ tasks' = ts
    /\ storage' = storage
    /\ phase' = "crashed"
    /\ lastSetItem' = TRUE
    /\ lastRaised' = Some("QuotaExceededError")
    /\ lastOutcome' = None

\* QuickAddModal.handleSubmit with a title that passes, when the write throws
QuickAddSubmitWriteThrows(title, priority, category, dueDate) ==
    /\ phase = "ready"
    /\ showAddModal
    /\ Len(tasks) < MaxTasks
    /\ Truthy(Trim(title))
    /\ SaveEffectThrows(AddTask(tasks, [title |-> title, priority |-> priority,
                                        category |-> category, dueDate |-> dueDate], now))
    /\ showAddModal' = FALSE
    /\ lastEvent' = "add"
    /\ lastId' = 0
    /\ removed' = removed \ {now}
    /\ UNCHANGED <<now, showAIChat, viewVars, chatVars>>

\* handleToggleTask(id) when the write throws
HandleToggleTaskWriteThrows(id) ==
    /\ phase = "ready"
    /\ SaveEffectThrows(ToggleTask(tasks, id))
    /\ lastEvent' = "toggle"
    /\ lastId' = id
    /\ UNCHANGED <<now, showAddModal, showAIChat, viewVars, chatVars, removed>>

\* handleDeleteTask(id) when the write throws
HandleDeleteTaskWriteThrows(id) ==
    /\ phase = "ready"
    /\ SaveEffectThrows(DeleteTask(tasks, id))
    /\ lastEvent' = "delete"
    /\ lastId' = id
    /\ removed' = IF id \in TaskIds(tasks) THEN removed \cup {id} ELSE removed
    /\ UNCHANGED <<now, showAddModal, showAIChat, viewVars, chatVars>>

\* the ids a caller passes: those of the tasks on display, and 0, which no task has
AskedIds == TaskIds(tasks) \cup {0}

\* the titles typed into the add dialog
Titles == {<<>>, <<" ">>, <<"a">>}

----------------------------------------------------------------------------
(* View handlers *)

Views == {"today", "upcoming", "lists", "stats"}

\* Variant: a navigation button leaves the category filter as it is
NavigateKeepsFilter(v) ==
    /\ phase = "ready"
    /\ activeView' = v
    /\ categoryFilter' = categoryFilter
    /\ activeCategory' = IF v = "lists" /\ activeView = "lists" THEN activeCategory ELSE None
    /\ Note("navigate")
    /\ UNCHANGED <<phase, now, storeVars, showAIChat, chatVars, removed>>

\* A bottom navigation button: setActiveView(v); setCategoryFilter(null).
\* ListsView is mounted only while activeView is 'lists'; its state is
\* built by useState(null) when it mounts and kept while it stays mounted.
Navigate(v) ==
    /\ phase = "ready"
    /\ activeView' = v
    /\ categoryFilter' = None
    /\ activeCategory' = IF v = "lists" /\ activeView = "lists" THEN activeCategory ELSE None
    /\ Note("navigate")
    /\ UNCHANGED <<phase, now, storeVars, showAIChat, chatVars, removed>>

\* ListsView.handleCategoryClick
HandleCategoryClick(category) ==
    /\ phase = "ready"
    /\ activeView = "lists"
    /\ LET newCategory == IF activeCategory = Some(category) THEN None ELSE Some(category) IN
        /\ activeCategory' = newCategory
        /\ categoryFilter' = newCategory
    /\ activeView' = activeView
    /\ Note("category")
    /\ UNCHANGED <<phase, now, storeVars, showAIChat, chatVars, removed>>

----------------------------------------------------------------------------
(* Chat handlers *)

\* The header button: setShowAIChat(true)
OpenChat ==
    /\ phase = "ready"
    /\ ~showAIChat
    /\ showAIChat' = TRUE
    /\ Note("openChat")
    /\ UNCHANGED <<phase, now, storeVars, viewVars, chatVars, removed>>

\* Variant: closing the dialog abandons the calls in flight
CloseChatAbandons ==
    /\ phase = "ready"
    /\ showAIChat
    /\ showAIChat' = FALSE
    /\ inflight' = <<>>
    /\ Note("closeChat")
    /\ UNCHANGED <<phase, now, storeVars, viewVars, messages, input, loading, removed>>

\* onClose of the chat dialog: setShowAIChat(false).  AIChat stays mounted.
CloseChat ==
    /\ phase = "ready"
    /\ showAIChat
    /\ showAIChat' = FALSE
    /\ Note("closeChat")
    /\ UNCHANGED <<phase, now, storeVars, viewVars, chatVars, removed>>

\* onChange of the chat input: setInput(e.target.value)
SetInput(text) ==
    /\ phase = "ready"
    /\ showAIChat
    /\ input # text
    /\ input' = text
    /\ Note("type")
    /\ UNCHANGED <<phase, now, storeVars, showAIChat, viewVars, messages, loading, inflight,
                   removed>>

\* handleSendMessage up to its await
SendMessage(text) ==
    /\ messages' = Append(messages, UserMessage(text, now))
    /\ input' = <<>>
    /\ loading' = TRUE
    /\ inflight' = Append(inflight, [text |-> text, agentId |-> AGENT_ID])

\* room in the log for a turn and its answer
RoomToSend == Len(messages) + Len(inflight) + 2 <= MaxTurns

\* handleSubmit
HandleSubmit ==
    /\ phase = "ready"
    /\ showAIChat
    /\ IF SubmitIgnored
       THEN /\ Note("submitIgnored")
            /\ UNCHANGED chatVars
       ELSE /\ RoomToSend
            /\ SendMessage(input)
            /\ Note("submit")
    /\ UNCHANGED <<phase, now, storeVars, showAIChat, viewVars, removed>>

\* handleSuggestionClick, from a rendered suggestion button
HandleSuggestionClick(i) ==
    /\ phase = "ready"
    /\ showAIChat
    /\ SuggestionsShown
    /\ RoomToSend
    /\ SendMessage(suggestions[i])
    /\ Note("suggestion")
    /\ UNCHANGED <<phase, now, storeVars, showAIChat, viewVars, removed>>

\* Variant: no catch block; an exception in the try block leaves the log as
\* it was (finally still clears loading)
ResolveUncaught(i, o) ==
    /\ phase = "ready"
    /\ i \in 1..Len(inflight)
    /\ inflight' = RemoveAt(inflight, i)
    /\ messages' = IF AssistantMessage(o, now) = CaughtMessage(now) THEN messages
                   ELSE Append(messages, AssistantMessage(o, now))
    /\ loading' = FALSE
    /\ lastEvent' = "resolve"
    /\ lastId' = 0
    /\ lastRaised' = None
    /\ lastSetItem' = FALSE
    /\ lastOutcome' = Some(o)
    /\ UNCHANGED <<phase, now, storeVars, showAIChat, viewVars, input, removed>>

\* handleSendMessage from its await on: the i-th call in flight ends with
\* outcome o; the try / catch appends one message, finally clears loading.
Resolve(i, o) ==
    /\ phase = "ready"
    /\ i \in 1..Len(inflight)
    /\ inflight' = RemoveAt(inflight, i)
    /\ messages' = Append(messages, AssistantMessage(o, now))
    /\ loading' = FALSE
    /\ lastEvent' = "resolve"
    /\ lastId' = 0
    /\ lastRaised' = None
    /\ lastSetItem' = FALSE
    /\ lastOutcome' = Some(o)
    /\ UNCHANGED <<phase, now, storeVars, showAIChat, viewVars, input, removed>>

----------------------------------------------------------------------------
(* Specifications *)

StoreNext ==
    \/ Tick
    \/ Mount
    \/ Reload
    \/ OpenAddModal
    \/ CloseAddModal
    \/ \E title \in Titles, priority \in AddPriorities, category \in AddCategories :
          QuickAddSubmit(title, priority, category, now)
    \/ \E id \in AskedIds : HandleToggleTask(id)
    \/ \E id \in AskedIds : HandleDeleteTask(id)

\* The chat session amid the other operations of the page: one instance of
\* each kind of operation (the first suggestion, one typed text, the first
\* seeded task, one category), and one outcome of each kind
LiveOutcomes ==
    {o \in Outcomes : \/ o.throws
                      \/ o.response # None /\ o.response[1].message = None}

LiveResolve == \E i \in 1..MaxTurns, o \in LiveOutcomes : Resolve(i, o)

ChatNext ==
    \/ Tick
    \/ Mount
    \/ OpenChat
    \/ CloseChat
    \/ \E text \in TypedTexts : SetInput(text)
    \/ HandleSubmit
    \/ \E i \in 1..Len(suggestions) : HandleSuggestionClick(i)
    \/ \E i \in 1..MaxTurns, o \in Outcomes : Resolve(i, o)

LiveNext ==
    \/ Mount
    \/ OpenChat
    \/ CloseChat
    \/ SetInput(<<"a">>)
    \/ HandleSubmit
    \/ HandleSuggestionClick(1)
    \/ LiveResolve
    \/ \E v \in Views : Navigate(v)
    \/ HandleCategoryClick("Work")
    \/ OpenAddModal
    \/ CloseAddModal
    \/ QuickAddSubmit(<<"a">>, "medium", "Personal", now)
    \/ HandleToggleTask(1)
    \/ HandleDeleteTask(1)

\* The task store when localStorage may refuse a write
QuotaNext ==
    \/ StoreNext
    \/ \E title \in Titles, priority \in AddPriorities, category \in AddCategories :
          QuickAddSubmitWriteThrows(title, priority, category, now)
    \/ \E id \in AskedIds : HandleToggleTaskWriteThrows(id)
    \/ \E id \in AskedIds : HandleDeleteTaskWriteThrows(id)

\* Every handler of the page, over page loads
Next ==
    \/ QuotaNext
    \/ ChatNext
    \/ \E v \in Views : Navigate(v)
    \/ \E c \in Categories : HandleCategoryClick(c)

Spec == Init /\ [][Next]_vars

\* The task store over page loads
StoreSpec == Init /\ [][StoreNext]_vars

\* The task store when localStorage may refuse a write
QuotaSpec == Init /\ [][QuotaNext]_vars

----------------------------------------------------------------------------
(* Views and statistics: functions of the collection and the clock *)

\* Milliseconds in a day, in the model's unit of time
DayLen == 2

\* Days the model's dates span, counted from 1 January 1970
MaxDay == 4

\* Date.getDay() of 1 January 1970, a Thursday, and the days of a week
EpochWeekday == 4
DaysPerWeek == 7

Dates == 0 .. (MaxDay + 1) * DayLen - 1

\* Variant: the time of day is kept
SetHoursZeroOmitted(t) == t

\* date.setHours(0, 0, 0, 0); getTime() of an invalid date stays NaN
SetHoursZero(t) == IF t = InvalidDate THEN InvalidDate ELSE t - (t % DayLen)

\* date.getDay(): 0 is Sunday
GetDay(t) == ((t \div DayLen) + EpochWeekday) % DaysPerWeek

\* Variant: the category filter is not applied
GetFilteredTasksAnyCategory(ts, view, filter, t) ==
    IF view = "today"
    THEN SelectSeq(ts, LAMBDA x : SetHoursZero(x.dueDate) = SetHoursZero(t))
    ELSE IF view = "upcoming"
    THEN SelectSeq(ts, LAMBDA x : SetHoursZero(x.dueDate) > SetHoursZero(t))
    ELSE ts

\* getFilteredTasks() for the given view, category filter and clock
GetFilteredTasks(ts, view, filter, t) ==
    LET today == SetHoursZero(t)
        dated ==
            IF view = "today"
            THEN SelectSeq(ts, LAMBDA x :
                     /\ x.dueDate # InvalidDate
                     /\ SetHoursZero(x.dueDate) = today)
            ELSE IF view = "upcoming"
            THEN SelectSeq(ts, LAMBDA x :
                     /\ x.dueDate # InvalidDate
                     /\ SetHoursZero(x.dueDate) > today)
            ELSE ts
    IN  IF filter # None
        THEN SelectSeq(dated, LAMBDA x : x.category = filter[1])
        ELSE dated

\* StatsView: startOfWeek, the clock moved back getDay() days, its time of
\* day kept
StartOfWeek(t) == t - GetDay(t) * DayLen

\* StatsView: weeklyTasks
WeeklyTasks(ts, t) ==
    SelectSeq(ts, LAMBDA x :
        /\ x.createdAt # InvalidDate
        /\ x.createdAt >= StartOfWeek(t))

\* The tasks of a collection that are completed
Completed(ts) == SelectSeq(ts, LAMBDA x : x.completed)

\* Variant: the division is made whatever the total
RateUnguarded(done, total) == [num |-> done * 100, den |-> total]

\* (done / total) * 100 when total > 0, else 0, as an exact fraction
Rate(done, total) ==
    IF total > 0 THEN [num |-> done * 100, den |-> total]
    ELSE [num |-> 0, den |-> 1]

\* StatsView: weeklyRate
WeeklyRate(ts, t) == Rate(Len(Completed(WeeklyTasks(ts, t))), Len(WeeklyTasks(ts, t)))

\* A task as it is found in a loaded collection
ViewTask(id, category, completed, date) ==
    [id |-> id, title |-> <<"a">>, completed |-> completed,
     priority |-> "medium", category |-> category,
     dueDate |-> date, createdAt |-> date]

\* Loaded collections of one or two tasks, of every date
ViewCollections ==
    {<<ViewTask(1, "Work", FALSE, d)>> : d \in Dates}
    \cup {<<ViewTask(1, "Work", FALSE, d[1]), ViewTask(2, c, TRUE, d[2])>> :
             d \in Dates \X Dates, c \in {"Work", "Personal"}}

\* The page just after it loaded a persisted collection, at any time
InitViews ==
    \E ts \in ViewCollections, t \in Dates :
        /\ tasks = ts
        /\ now = t
        /\ storage = Some(Stringify(ts))
        /\ phase = "ready"
        /\ showAddModal = FALSE
        /\ showAIChat = FALSE
        /\ activeView = "today"
        /\ categoryFilter = None
        /\ activeCategory = None
        /\ messages = <<>>
        /\ input = <<>>
        /\ loading = FALSE
        /\ inflight = <<>>
        /\ lastEvent = "load"
        /\ lastId = 0
        /\ removed = {}
        /\ lastRaised = None
        /\ lastSetItem = TRUE
        /\ lastOutcome = None

ViewNext ==
    \/ \E v \in Views : Navigate(v)
    \/ \E category \in Categories : HandleCategoryClick(category)

\* The views over loaded collections
ViewSpec == InitViews /\ [][ViewNext]_vars

\* Tasks of the largest collection the statistics are computed over
MaxStatTasks == 4

\* StatsView: completionRate
CompletionRate(ts) == Rate(Len(Completed(ts)), Len(ts))

\* StatsView, task breakdown: categoryTasks and categoryRate
CategoryTasks(ts, category) == SelectSeq(ts, LAMBDA x : x.category = category)
CategoryRate(ts, category) ==
    Rate(Len(Completed(CategoryTasks(ts, category))), Len(CategoryTasks(ts, category)))

\* Variant: the badge counts completed tasks too
CategoryCountAll(ts, category) ==
    Len(SelectSeq(ts, LAMBDA x : x.category = category))

\* ListsView: categoryCounts, the count shown for a category
CategoryCount(ts, category) ==
    Len(SelectSeq(ts, LAMBDA x : x.category = category /\ ~x.completed))

\* Loaded collections of up to MaxStatTasks tasks, of every category and
\* completion flag, all dated at the epoch
RECURSIVE StatCollections(_)
StatCollections(n) ==
    IF n = 0 THEN {<<>>}
    ELSE StatCollections(n - 1)
         \cup {Append(ts, ViewTask(n, c, done, 0)) :
                  ts \in {q \in StatCollections(n - 1) : Len(q) = n - 1},
                  c \in Categories, done \in BOOLEAN}

\* The page just after it loaded a persisted collection
InitStats ==
    \E ts \in StatCollections(MaxStatTasks) :
        /\ tasks = ts
        /\ now = T0
        /\ storage = Some(Stringify(ts))
        /\ phase = "ready"
        /\ showAddModal = FALSE
        /\ showAIChat = FALSE
        /\ activeView = "today"
        /\ categoryFilter = None
        /\ activeCategory = None
        /\ messages = <<>>
        /\ input = <<>>
        /\ loading = FALSE
        /\ inflight = <<>>
        /\ lastEvent = "load"
        /\ lastId = 0
        /\ removed = {}
        /\ lastRaised = None
        /\ lastSetItem = (Len(ts) > 0)
        /\ lastOutcome = None

StatsNext ==
    \/ \E v \in Views : Navigate(v)
    \/ \E category \in Categories : HandleCategoryClick(category)
    \/ \E id \in TaskIds(tasks) : HandleToggleTask(id)

\* The statistics and the badges over loaded collections
StatsSpec == InitStats /\ [][StatsNext]_vars

\* What the key may hold when the page is first opened: nothing, the empty
\* collection "[]", or a collection written earlier
PersistedAtStart ==
    {None, Some(<<>>), Some(Stringify(<<sampleTasks(0)[3]>>))}

InitPersisted ==
    \E st \in PersistedAtStart :
        /\ storage = st
        /\ phase = "mounting"
        /\ now = T0
        /\ tasks = <<>>
        /\ showAddModal = FALSE
        /\ showAIChat = FALSE
        /\ activeView = "today"
        /\ categoryFilter = None
        /\ activeCategory = None
        /\ messages = <<>>
        /\ input = <<>>
        /\ loading = FALSE
        /\ inflight = <<>>
        /\ lastEvent = "construct"
        /\ lastId = 0
        /\ removed = {}
        /\ lastRaised = None
        /\ lastSetItem = FALSE
        /\ lastOutcome = None

\* The task store over page loads, from any persisted value
LoadSpec == InitPersisted /\ [][StoreNext]_vars

\* The chat session of one page load
ChatSpec == Init /\ [][ChatNext]_vars

\* The chat session of one page load amid the other operations of the page,
\* with a collaborator whose calls all end
LiveSpec == Init /\ [][LiveNext]_vars /\ WF_vars(LiveResolve)

----------------------------------------------------------------------------
(* Chat session properties *)

\* The type the i-th turn of a strictly alternating log has
TurnType(i) == IF i % 2 = 1 THEN "user" ELSE "assistant"

\* A text that is empty or holds whitespace only
IsBlank(t) == \A i \in 1..Len(t) : t[i] = " "

\* A step in which handleSubmit ran / a suggestion button was clicked
SubmitStep == lastEvent' \in {"submit", "submitIgnored"} /\ now' = now
SuggestionStep == lastEvent' = "suggestion" /\ now' = now

\* A step in which a call in flight ended
ResolutionStep == Len(inflight') < Len(inflight)

\* C1: at most one assistant request is in flight, whatever the sequence of
\* form submits, suggestion clicks, dialog events and resolutions.
C1_AtMostOneInFlight == Len(inflight) <= 1

\* a submit with real text was ignored because a request was in flight
C1_Witness ==
    /\ Len(inflight) = 1
    /\ lastEvent = "submitIgnored"
    /\ ~IsBlank(input)
    /\ Len(messages) = 3

\* C2: every resolution of a request appends exactly one turn to the log,
\* an assistant turn, whichever way the call ended.
C2_OneAssistantTurnPerResolution ==
    [][ResolutionStep =>
        /\ Len(messages') = Len(messages) + 1
        /\ SubSeq(messages', 1, Len(messages)) = messages
        /\ messages'[Len(messages')].type = "assistant"]_vars

\* a call has ended in the catch block and another in the success branch
C2_Witness ==
    /\ Len(messages) = 4
    /\ messages[2].content = NetworkFallback
    /\ messages[4].tips # None
    /\ inflight = <<>>

\* C3: the log alternates user, assistant, user, ... from a user turn, and
\* its last turn is a user turn exactly while a response is awaited.
C3_StrictAlternation ==
    /\ \A i \in 1..Len(messages) : messages[i].type = TurnType(i)
    /\ loading <=> (Len(messages) > 0 /\ messages[Len(messages)].type = "user")
    /\ loading <=> (inflight # <<>>)

\* a second exchange is under way after a first one that started from a suggestion
C3_Witness ==
    /\ Len(messages) = 3
    /\ loading
    /\ messages[1].content = suggestions[2]

\* C7: a send-intent with blank text, or one made while a response is
\* awaited, leaves the log, the busy flag and the calls in flight as they were.
C7_RejectedSendChangesNothing ==
    [][(\/ SubmitStep /\ (IsBlank(input) \/ loading)
        \/ SuggestionStep /\ loading)
       => UNCHANGED <<messages, loading, inflight>>]_vars

\* a submit of a text with content was ignored while the first response was awaited
C7_Witness ==
    /\ lastEvent = "submitIgnored"
    /\ loading
    /\ input = <<" ", "a", " ">>
    /\ Len(messages) = 1

\* a submit of a blank text was ignored while the session was idle
C7_BlankIgnoredReached ==
    /\ lastEvent = "submitIgnored"
    /\ ~loading
    /\ input = <<" ", " ">>
    /\ Len(messages) = 2

\* C8: given that every call ends, an accepted send is followed by the
\* session being idle with the assistant turn for it appended, whatever
\* dialog, task, navigation and filter events happen in between.
C8_EveryRequestAnswered ==
    \A n \in 1..MaxTurns :
        (loading /\ Len(messages) = n)
            ~> (~loading /\ Len(messages) = n + 1 /\ messages[n + 1].type = "assistant")

\* a request was answered although the dialog was closed and a task deleted meanwhile
C8_Witness ==
    /\ lastEvent = "resolve"
    /\ ~showAIChat
    /\ 1 \in removed
    /\ activeView = "lists"
    /\ Len(messages) = 2

----------------------------------------------------------------------------
(* Task store properties *)

\* A step in which handleAddTask, handleToggleTask or handleDeleteTask ran
MutationStep == lastEvent' \in {"add", "toggle", "delete"} /\ now' = now

\* A step in which handleToggleTask or handleDeleteTask ran with an id no task has
AbsentIdStep ==
    /\ lastEvent' \in {"toggle", "delete"}
    /\ now' = now
    /\ lastId' \notin TaskIds(tasks)

\* C4: after every add, toggle or remove that changes the collection, the
\* value stored under the key is the whole in-memory collection.
C4_PersistedIsWholeCollection ==
    [][(MutationStep /\ tasks' # tasks) => storage' = Some(Stringify(tasks'))]_vars

\* C5: a removed task never appears in the collection again, in particular
\* not after a later load from the store.
C5_RemovedNeverReturns ==
    phase = "ready" => removed \cap TaskIds(tasks) = {}

\* C6: no two tasks of the collection have the same id.
C6_TaskIdsUnique ==
    \A i, j \in 1..Len(tasks) : i # j => tasks[i].id # tasks[j].id

\* C9: toggle and remove called with an id no task has report NotFoundError
\* to the caller and leave the collection unchanged.
C9_AbsentIdReported ==
    [][AbsentIdStep => (lastRaised' = Some("NotFoundError") /\ tasks' = tasks)]_vars

\* C10: the startup load of a non-empty persisted collection issues no
\* persist write.
C10_NoWriteOnLoad ==
    (lastEvent = "load" /\ Len(tasks) > 0) => ~lastSetItem

\* A step in which the load effect ran
LoadStep == phase = "mounting" /\ phase' = "ready"

\* C11: the load yields the three-task bootstrap set when the persisted
\* value is absent or an empty collection, and the decoded persisted
\* collection otherwise.
C11_SeedIffAbsentOrEmpty ==
    [][LoadStep =>
        IF storage = None \/ storage = Some(<<>>)
        THEN tasks' = sampleTasks(now)
        ELSE tasks' = Parse(storage[1])]_vars

\* The last operation mutated the collection and its write did not reach
\* the store
WriteFailed ==
    /\ lastEvent \in {"add", "toggle", "delete"}
    /\ lastSetItem
    /\ storage # Some(Stringify(tasks))

\* C12: a failing persistence write is swallowed: no error is surfaced and
\* the application keeps accepting operations.
C12_WriteFailureSwallowed ==
    WriteFailed => (lastRaised = None /\ phase = "ready")

\* The calendar day a valid date falls on
DayOf(t) == t \div DayLen

\* The task is an element of the list
Shown(x, ts) == \E j \in 1..Len(ts) : ts[j] = x

\* C13: for every time of day of the clock and of the due date, a task due
\* on the clock's day is in Today and not in Upcoming, one due on a later
\* day is in Upcoming and not in Today, one due on an earlier day is in
\* neither.
C13_DayBoundaryMembership ==
    LET today == GetFilteredTasks(tasks, "today", None, now)
        upcoming == GetFilteredTasks(tasks, "upcoming", None, now)
    IN  \A i \in 1..Len(tasks) :
            LET x == tasks[i] IN
            /\ Shown(x, today) <=> DayOf(x.dueDate) = DayOf(now)
            /\ Shown(x, upcoming) <=> DayOf(x.dueDate) > DayOf(now)

\* The Upcoming view is open on a task due earlier today at another time of
\* day and a task due on a later day
C13_Witness ==
    /\ activeView = "upcoming"
    /\ Len(tasks) = 2
    /\ DayOf(tasks[1].dueDate) = DayOf(now)
    /\ tasks[1].dueDate < now
    /\ DayOf(tasks[2].dueDate) > DayOf(now)
    /\ GetFilteredTasks(tasks, activeView, categoryFilter, now) = <<tasks[2]>>

\* The weekly set the statistics are to show: created on or after 00:00 of
\* the most recent Sunday
SinceSundayMidnight(ts, t) ==
    SelectSeq(ts, LAMBDA x : DayOf(x.createdAt) >= DayOf(t) - GetDay(t))

\* C14: the weekly set is the tasks created on or after 00:00 of the most
\* recent Sunday, for every time of day of the clock and of the creation
\* date, and the weekly rate is completed / total * 100 over that set, 0
\* when it is empty.
C14_WeeklySinceSundayMidnight ==
    /\ WeeklyTasks(tasks, now) = SinceSundayMidnight(tasks, now)
    /\ WeeklyRate(tasks, now) =
          Rate(Len(Completed(SinceSundayMidnight(tasks, now))),
               Len(SinceSundayMidnight(tasks, now)))

\* The tasks of the view's days with the category, in one pass over the store
DatedWithCategory(ts, view, c, t) ==
    SelectSeq(ts, LAMBDA x :
        /\ x.category = c
        /\ \/ view = "today" /\ DayOf(x.dueDate) = DayOf(t)
           \/ view = "upcoming" /\ DayOf(x.dueDate) > DayOf(t))

\* C15: with the category filter set to c, the Today and the Upcoming
\* result is the tasks that pass the date filter and have category c, in
\* store order, and filtering the result again leaves it as it is.
C15_CategoryFilterExactAndIdempotent ==
    \A view \in {"today", "upcoming"}, c \in Categories :
        LET result == GetFilteredTasks(tasks, view, Some(c), now) IN
        /\ result = DatedWithCategory(tasks, view, c, now)
        /\ GetFilteredTasks(result, view, Some(c), now) = result

\* A category is selected over two tasks due today of which it keeps one
C15_Witness ==
    /\ categoryFilter = Some("Personal")
    /\ Len(tasks) = 2
    /\ DayOf(tasks[1].dueDate) = DayOf(now)
    /\ DayOf(tasks[2].dueDate) = DayOf(now)
    /\ tasks[1].dueDate # tasks[2].dueDate
    /\ GetFilteredTasks(tasks, "today", categoryFilter, now) = <<tasks[2]>>

\* A step in which a category button of the Lists view was pressed
CategoryStep == lastEvent' = "category"

\* C16: pressing a category in the Lists view toggles the category filter:
\* a filter equal to the pressed category becomes none, any other filter
\* becomes the pressed category.
C16_CategoryClickToggles ==
    [][CategoryStep =>
        \E c \in Categories :
            categoryFilter' = IF categoryFilter = Some(c) THEN None ELSE Some(c)]_vars

\* The outcome is an envelope that reports an error: success is false or
\* the status is not "success"
ErrorEnvelope(o) ==
    /\ ~o.throws
    /\ \/ ~o.success
       \/ o.response = None
       \/ o.response[1].status # "success"

\* The message just appended carries no tips, priority suggestions or
\* related topics
NoLists(m) == m.tips = None /\ m.prioritySuggestions = None /\ m.relatedTopics = None

\* C17 as stated: for an envelope with success = false or a status other
\* than "success", the content is the supplied message, or the soft
\* fallback when none is supplied, with no tips, priority suggestions or
\* related topics; for a transport failure the content is the network
\* fallback.
C17_ErrorContentAsStated ==
    lastEvent = "resolve" =>
        LET o == lastOutcome[1]
            m == messages[Len(messages)]
        IN  /\ ErrorEnvelope(o) =>
                /\ m.content = IF o.response # None /\ o.response[1].message # None
                                THEN o.response[1].message[1]
                                ELSE SoftFallback
                /\ NoLists(m)
            /\ o.throws => m.content = NetworkFallback

\* C17: for an envelope that carries a response object, with success =
\* false or a status other than "success", the content is the supplied
\* message when it is not empty and the soft fallback otherwise, with no
\* tips, priority suggestions or related topics; for a transport failure,
\* and for an envelope without a response object, the content is the
\* network fallback.
C17_ErrorContent ==
    lastEvent = "resolve" =>
        LET o == lastOutcome[1]
            m == messages[Len(messages)]
        IN  /\ (ErrorEnvelope(o) /\ o.response # None) =>
                /\ m.content = IF /\ o.response[1].message # None
                                   /\ Len(o.response[1].message[1]) > 0
                                THEN o.response[1].message[1]
                                ELSE SoftFallback
                /\ NoLists(m)
            /\ (o.throws \/ o.response = None) =>
                /\ m.content = NetworkFallback
                /\ NoLists(m)

\* A call that returned success = false without a response object has been
\* answered with the network fallback
C17_Witness ==
    /\ lastEvent = "resolve"
    /\ ~lastOutcome[1].throws
    /\ ~lastOutcome[1].success
    /\ lastOutcome[1].response = None
    /\ messages[Len(messages)].content = NetworkFallback

\* An error envelope with a message has been answered with that message
C17_MessageShown ==
    /\ lastEvent = "resolve"
    /\ ErrorEnvelope(lastOutcome[1])
    /\ lastOutcome[1].response # None
    /\ messages[Len(messages)].content = <<"Rate limited">>

\* The outcome is a success envelope with a result payload
SuccessEnvelope(o) ==
    /\ ~o.throws
    /\ o.success
    /\ o.response # None
    /\ o.response[1].status = "success"
    /\ o.response[1].result # None

\* C18: for a success envelope with a well-formed payload, the assistant
\* turn has the payload's answer as content and its tips, priority
\* suggestions and related topics, each in the payload's order, and the
\* session is idle again.
C18_SuccessPayloadMapped ==
    (lastEvent = "resolve" /\ SuccessEnvelope(lastOutcome[1])) =>
        LET p == lastOutcome[1].response[1].result[1]
            m == messages[Len(messages)]
        IN  /\ m.type = "assistant"
            /\ m.content = p.answer
            /\ m.tips = Some(p.tips)
            /\ m.prioritySuggestions = Some(p.priority_suggestions)
            /\ m.relatedTopics = Some(p.related_topics)
            /\ ~loading
            /\ inflight = <<>>

\* A payload with two tips has been appended to the log
C18_Witness ==
    /\ lastEvent = "resolve"
    /\ SuccessEnvelope(lastOutcome[1])
    /\ Len(messages) = 2
    /\ Len(messages[2].tips[1]) = 2
    /\ messages[2].tips[1][1] # messages[2].tips[1][2]

\* A step in which the add dialog was submitted
SubmitAddStep == lastEvent' \in {"add", "addIgnored"} /\ now' = now

\* C19: submitting the add dialog with a blank title creates no task and
\* persists nothing, so every task the dialog creates has a title that is
\* not empty after trimming.
C19_BlankTitleRejected ==
    [][SubmitAddStep =>
        \/ /\ tasks' = tasks
           /\ storage' = storage
           /\ ~lastSetItem'
        \/ /\ Len(tasks') = Len(tasks) + 1
           /\ ~IsBlank(tasks'[Len(tasks')].title)]_vars

\* A blank title was submitted: the dialog is still open over the two
\* remaining tasks and the store holds them
C19_Witness ==
    /\ lastEvent = "addIgnored"
    /\ showAddModal
    /\ Len(tasks) = 2
    /\ storage = Some(Stringify(tasks))
    /\ ~lastSetItem

\* A step in which handleToggleTask ran
ToggleStep == lastEvent' = "toggle" /\ now' = now

\* C20: toggle(id) changes only the completed flag of the task with that
\* id, leaves every other task and the order as they were, and applied
\* twice restores the collection.
C20_ToggleChangesOneFlag ==
    [][ToggleStep =>
        /\ Len(tasks') = Len(tasks)
        /\ \A i \in 1..Len(tasks) :
              \/ tasks'[i] = tasks[i]
              \/ /\ tasks[i].id = lastId'
                 /\ tasks'[i] = [tasks[i] EXCEPT !.completed = ~@]
        /\ Cardinality({i \in 1..Len(tasks) : tasks'[i] # tasks[i]}) <= 1
        /\ ToggleTask(tasks', lastId') = tasks]_vars

\* The number of tasks of the collection that satisfy P
CountOf(P(_)) == Cardinality({i \in 1..Len(tasks) : P(tasks[i])})

\* The rate r is (done / total) * 100, or 0 when total is 0, and lies in
\* 0..100
IsRateOf(r, done, total) ==
    /\ r.den > 0
    /\ IF total = 0 THEN r.num = 0 ELSE r.num * total = done * 100 * r.den
    /\ 0 <= r.num
    /\ r.num <= 100 * r.den

\* C21: the overall rate and each category's rate are completed / total *
\* 100 over their task set, 0 when the set is empty, and lie in 0..100; 4
\* tasks of which 1 is completed give an overall rate of 25.
C21_RatesAreCompletedOverTotal ==
    /\ IsRateOf(CompletionRate(tasks),
                CountOf(LAMBDA x : x.completed), Len(tasks))
    /\ \A c \in Categories :
          IsRateOf(CategoryRate(tasks, c),
                   CountOf(LAMBDA x : x.category = c /\ x.completed),
                   CountOf(LAMBDA x : x.category = c))
    /\ (Len(tasks) = 4 /\ CountOf(LAMBDA x : x.completed) = 1) =>
          CompletionRate(tasks).num = 25 * CompletionRate(tasks).den

\* The statistics are open on 4 tasks of which 1 is completed, with a
\* category that has no task
C21_Witness ==
    /\ activeView = "stats"
    /\ Len(tasks) = 4
    /\ CountOf(LAMBDA x : x.completed) = 1
    /\ CountOf(LAMBDA x : x.category = "Shopping") = 0
    /\ CategoryRate(tasks, "Shopping").num = 0
    /\ lastEvent = "toggle"

\* C22: in the Lists view the badge of each of the three categories is the
\* number of incomplete tasks of that category in the whole collection,
\* whatever the category filter and the view.
C22_BadgeCountsIncomplete ==
    \A c \in Categories :
        CategoryCount(tasks, c) = CountOf(LAMBDA x : x.category = c /\ ~x.completed)

\* The Lists view is filtered to Personal while Work has a completed and
\* an incomplete task
C22_Witness ==
    /\ activeView = "lists"
    /\ categoryFilter = Some("Personal")
    /\ CountOf(LAMBDA x : x.category = "Work" /\ x.completed) = 1
    /\ CountOf(LAMBDA x : x.category = "Work" /\ ~x.completed) = 1
    /\ CategoryCount(tasks, "Work") = 1

\* The suggestion buttons can be pressed
SuggestionsOffered == \A i \in 1..Len(suggestions) : ENABLED HandleSuggestionClick(i)

\* C23: while the chat is open the four suggestions are offered exactly
\* when the log is empty, and a log that holds a turn keeps its turns for
\* the rest of the session, so they are never offered again.
C23_SuggestionsOnlyOnEmptyLog ==
    /\ Len(suggestions) = 4
    /\ [](  (phase = "ready" /\ showAIChat) =>
            (SuggestionsOffered <=> Len(messages) = 0))
    /\ [][(Len(messages) > 0 /\ phase' = "ready") =>
            /\ Len(messages') >= Len(messages)
            /\ SubSeq(messages', 1, Len(messages)) = messages
            /\ ~SuggestionsOffered']_vars

\* The chat is open and idle after an exchange, with room for another
C23_Witness ==
    /\ showAIChat
    /\ Len(messages) = 2
    /\ ~loading
    /\ lastEvent = "resolve"
    /\ RoomToSend
    /\ ~SuggestionsOffered

\* C24: the turns of the log have pairwise distinct ids, whatever the clock
\* reads when each turn is created.
C24_TurnIdsUnique ==
    \A i, j \in 1..Len(messages) : i # j => messages[i].id # messages[j].id

\* Two tasks have the same values in every field
SameTask(x, y) ==
    /\ x.id = y.id
    /\ x.title = y.title
    /\ x.completed = y.completed
    /\ x.priority = y.priority
    /\ x.category = y.category
    /\ x.dueDate = y.dueDate
    /\ x.createdAt = y.createdAt

NavigationStep == lastEvent' = "navigate"

\* C26: the category filter is set only while the Lists view is open:
\* every navigation button resets it, so the Today and the Upcoming view
\* are never narrowed by a category chosen in Lists.
C26_FilterOnlyInLists ==
    /\ [](categoryFilter # None => activeView = "lists")
    /\ [](activeView \in {"today", "upcoming"} =>
            GetFilteredTasks(tasks, activeView, categoryFilter, now)
              = GetFilteredTasks(tasks, activeView, None, now))
    /\ [][NavigationStep => categoryFilter' = None]_vars

\* The Upcoming view was opened on two tasks due on a later day, one of
\* them Personal, and shows both
C26_Witness ==
    /\ activeView = "upcoming"
    /\ lastEvent = "navigate"
    /\ categoryFilter = None
    /\ Len(tasks) = 2
    /\ tasks[2].category = "Personal"
    /\ Len(GetFilteredTasks(tasks, activeView, categoryFilter, now)) = 2

\* C27: while the Lists view is open, the category it highlights is the
\* category filter of the page.
C27_HighlightIsFilter ==
    activeView = "lists" => activeCategory = categoryFilter

\* C28: the busy flag is set exactly while a call is in flight: only an
\* accepted send sets it, only the resolution of the call clears it, and
\* while it is set every form submit is ignored.
C28_BusyIffInFlight ==
    /\ [](loading <=> Len(inflight) > 0)
    /\ [][(phase = "ready" /\ phase' = "ready") =>
            /\ (~loading /\ loading') =>
                  /\ lastEvent' \in {"submit", "suggestion"}
                  /\ Len(inflight') = Len(inflight) + 1
            /\ (loading /\ ~loading') =>
                  /\ lastEvent' = "resolve"
                  /\ Len(inflight') = Len(inflight) - 1
            /\ (loading /\ lastEvent' # "resolve") =>
                  /\ loading'
                  /\ messages' = messages
                  /\ inflight' = inflight]_vars

\* The dialog was closed while the first response was awaited
C28_Witness ==
    /\ loading
    /\ Len(inflight) = 1
    /\ ~showAIChat
    /\ lastEvent = "closeChat"
    /\ Len(messages) = 1

====
